---------------------------- MODULE Spec2Model ----------------------------
(***************************************************************************)
(* A model of monerod-exporter: the Exporter (src/src/metrics.rs), its     *)
(* block-window aggregation, the Prometheus renderer                       *)
(* (src/src/prometheus.rs), the Publisher's refresh loop and the HTTP      *)
(* handler (src/src/main.rs).                                              *)
(***************************************************************************)
EXTENDS Integers, Sequences, FiniteSets, TLC

(***************************************************************************)
(* Bounds of the model.                                                    *)
(***************************************************************************)
\* heights reported by the node range over 0..MaxHeight
MaxHeight == 2
\* the model clock runs over 0..MaxTime
MaxTime == 5
\* the configured refresh interval, in clock units
RefreshInterval == 2
\* windows handed directly to the aggregator hold headers of the heights 0..MaxBlock
MaxBlock == 1
\* header windows handed directly to the aggregator have at most MaxLen entries
MaxLen == 3

(***************************************************************************)
(* State.                                                                  *)
(***************************************************************************)
VARIABLES
    exporter,          \* Publisher.exporter: [max_block_span, block_spans]
    rendered_metrics,  \* Publisher.rendered_metrics: Option<String>
    pc,                \* Publisher::run: "tick", "get_info" or "try_join"
    info,              \* export(): the InfoResponse of the cycle, once received
    tx_pool_fut,       \* export(): the get_transaction_pool_stats future
    headers_fut,       \* export(): the get_block_headers_range future
    calls,             \* gateway calls issued since the cycle's tick
    now,               \* the clock
    deadline,          \* the instant of the interval's next tick
    http,              \* the last HTTP reply: Option<[status, body]>
    join_order,        \* try_join!: the futures that have answered, first first
    outcomes,          \* what the last two completed cycles' export() returned
    lock,              \* the RwLock of rendered_metrics: [writer, readers]
    agg                \* get_blocks_metrics applied on its own: [headers, count, out]

vars == << exporter, rendered_metrics, pc, info, tx_pool_fut, headers_fut, calls,
           now, deadline, http, join_order, outcomes, lock, agg >>

\* Option<T>: None is the empty sequence, Some(x) the one-element sequence
None == <<>>

Some(x) == <<x>>

(***************************************************************************)
(* f64 values.  A value is the fraction n/d; d = 0 is the result of a      *)
(* division by zero: 0/0 is NaN, 1/0 is +inf.  Every u64 the model draws   *)
(* is far below 2^53, so `as f64`, the sums and the maxima are exact.      *)
(***************************************************************************)
RECURSIVE Gcd(_, _)
Gcd(a, b) == IF b = 0 THEN a ELSE Gcd(b, a % b)

\* `x as f64` for an unsigned integer x
AsF64(x) == [n |-> x, d |-> 1]

NaN == [n |-> 0, d |-> 0]

IsNaN(x) == x.d = 0 /\ x.n = 0

\* a division that yields 0 where the divisor is 0
FDiv_ZeroGuard(a, b) ==
    IF b.n = 0
    THEN [n |-> 0, d |-> 1]
    ELSE LET g == Gcd(a.n, b.n) IN [n |-> a.n \div g, d |-> b.n \div g]

\* a / b for two integer-valued, non-negative f64 values
FDiv(a, b) ==
    IF b.n = 0
    THEN (IF a.n = 0 THEN NaN ELSE [n |-> 1, d |-> 0])
    ELSE LET g == Gcd(a.n, b.n) IN [n |-> a.n \div g, d |-> b.n \div g]

\* a + b for two integer-valued f64 values
FAdd(a, b) == [n |-> a.n + b.n, d |-> 1]

\* f64::max on integer-valued operands: a NaN operand yields the other one
FMax(a, b) ==
    IF IsNaN(a) THEN b
    ELSE IF IsNaN(b) THEN a
    ELSE IF a.n >= b.n THEN a ELSE b

\* `b as u8 as f64` for a bool
BoolAsF64(b) == AsF64(IF b THEN 1 ELSE 0)

(***************************************************************************)
(* Block headers.  `height` is the daemon's field that tells which block   *)
(* a header describes; the BlockHeader struct does not deserialize it and  *)
(* nothing below reads it except the properties.                           *)
(***************************************************************************)
BlockHeader(h, orphan) ==
    [ height        |-> h,
      block_size    |-> 7 - 2 * (h % 3),
      num_txes      |-> (h * h + 1) % 4,
      orphan_status |-> orphan,
      reward        |-> 10 + h ]

\* BlocksMetrics::default() with the maxima starting as NaN, which f64::max
\* drops at the first header folded
BlocksMetrics_default_NaNMaxima ==
    [ avg_txes |-> AsF64(0), max_txes |-> NaN,
      avg_reward |-> AsF64(0), max_reward |-> NaN,
      avg_size |-> AsF64(0), max_size |-> NaN ]

\* BlocksMetrics::default(): every field 0.0
BlocksMetrics_default ==
    [ avg_txes |-> AsF64(0), max_txes |-> AsF64(0),
      avg_reward |-> AsF64(0), max_reward |-> AsF64(0),
      avg_size |-> AsF64(0), max_size |-> AsF64(0) ]

\* Iterator::take(count): the first min(count, Len(s)) entries
Take(s, count) == SubSeq(s, 1, IF count < Len(s) THEN count ELSE Len(s))

\* the filter keeping every header
FilterNonOrphan_KeepAll(s) == s

\* Iterator::filter(|h| !h.orphan_status), order kept
RECURSIVE FilterNonOrphan(_)
FilterNonOrphan(s) ==
    IF s = <<>> THEN <<>>
    ELSE IF Head(s).orphan_status
         THEN FilterNonOrphan(Tail(s))
         ELSE <<Head(s)>> \o FilterNonOrphan(Tail(s))

\* the closure of the fold: one block merged into the accumulator
FoldStep(acc, block) ==
    [ avg_txes   |-> FAdd(acc.avg_txes, AsF64(block.num_txes)),
      max_txes   |-> FMax(acc.max_txes, AsF64(block.num_txes)),
      avg_reward |-> FAdd(acc.avg_reward, AsF64(block.reward)),
      max_reward |-> FMax(acc.max_reward, AsF64(block.reward)),
      avg_size   |-> FAdd(acc.avg_size, AsF64(block.block_size)),
      max_size   |-> FMax(acc.max_size, AsF64(block.block_size)) ]

\* Iterator::fold(init, f), left to right
RECURSIVE Fold(_, _)
Fold(acc, s) == IF s = <<>> THEN acc ELSE Fold(FoldStep(acc, Head(s)), Tail(s))

\* the blocks the aggregation is computed over
NonOrphanBlocks(headers, count) == FilterNonOrphan(Take(headers, count))

\* Exporter::get_blocks_metrics
get_blocks_metrics(headers, count) ==
    LET non_orphan_blocks == NonOrphanBlocks(headers, count)
        blocks_metrics    == Fold(BlocksMetrics_default, non_orphan_blocks)
        len               == AsF64(Len(non_orphan_blocks))
    IN  [ blocks_metrics EXCEPT
            !.avg_txes   = FDiv(blocks_metrics.avg_txes, len),
            !.avg_reward = FDiv(blocks_metrics.avg_reward, len),
            !.avg_size   = FDiv(blocks_metrics.avg_size, len) ]


(***************************************************************************)
(* The metric model and its renderer (src/src/prometheus.rs).  A rendered  *)
(* text is the sequence of its lines, a line the sequence of the string    *)
(* pieces written to the sink, in the order they are written.              *)
(***************************************************************************)
\* Display of an f64: "NaN", "inf", the decimal digits of an integral value;
\* a non-integral value n/d is written as the token "n/d", which stands for
\* its shortest round-trip decimal expansion
FmtF64(x) ==
    IF IsNaN(x) THEN "NaN"
    ELSE IF x.d = 0 THEN "inf"
    ELSE IF x.d = 1 THEN ToString(x.n)
    ELSE ToString(x.n) \o "/" \o ToString(x.d)

\* Metric::new_gauge
new_gauge(name, value) ==
    [ t |-> "Gauge", name |-> name,
      values |-> << [label |-> None, value |-> value] >> ]

\* Metric::new_gauge_with_label_values; values is a sequence of <<label value, f64>>
new_gauge_with_label_values(name, label_name, values) ==
    [ t |-> "Gauge", name |-> name,
      values |-> [ i \in 1..Len(values) |->
                     [ label |-> Some([name |-> label_name, value |-> values[i][1]]),
                       value |-> values[i][2] ] ] ]

\* the sample line of one MetricValue
RenderValue(name, value) ==
    <<name>>
    \o (IF value.label # None
        THEN <<"{", value.label[1].name, "=\"", value.label[1].value, "\"}">>
        ELSE <<>>)
    \o <<" ", FmtF64(value.value), "\n">>

\* Metric::render: the lines appended to the sink (a String sink never fails)
Metric_render(metric) ==
    LET type_str == CASE metric.t = "Gauge" -> "gauge" IN
    << <<"# HELP ", metric.name, "\n">>,
       <<"# TYPE ", metric.name, " ", type_str, "\n">> >>
    \o [ i \in 1..Len(metric.values) |-> RenderValue(metric.name, metric.values[i]) ]

\* render_metrics: every metric rendered in list order
RECURSIVE render_metrics(_)
render_metrics(metrics) ==
    IF metrics = <<>> THEN <<>>
    ELSE Metric_render(Head(metrics)) \o render_metrics(Tail(metrics))

(***************************************************************************)
(* The daemon's responses (src/src/client.rs).                             *)
(***************************************************************************)
\* InfoResponse; the counters no decision of the exporter reads are fixed,
\* pairwise distinct values
InfoResponse(height, synchronized, untrusted) ==
    [ block_size_limit           |-> 101,
      block_size_median          |-> 102,
      block_weight_limit         |-> 103,
      block_weight_median        |-> 104,
      cumulative_difficulty      |-> 105,
      database_size              |-> 106,
      difficulty                 |-> 107,
      free_space                 |-> 108,
      grey_peerlist_size         |-> 109,
      height                     |-> height,
      incoming_connections_count |-> 110,
      offline                    |-> FALSE,
      outgoing_connections_count |-> 111,
      rpc_connections_count      |-> 112,
      synchronized               |-> synchronized,
      target                     |-> 113,
      target_height              |-> 114,
      tx_count                   |-> 115,
      tx_pool_size               |-> 116,
      untrusted                  |-> untrusted,
      white_peerlist_size        |-> 117 ]

InfoResponses ==
    { InfoResponse(h, s, u) : h \in 0..MaxHeight, s \in BOOLEAN, u \in BOOLEAN }

\* TransactionPoolStatsResponse
TransactionPoolStatsResponse ==
    [ pool_stats |->
        [ bytes_max |-> 201, bytes_med |-> 202, bytes_min |-> 203,
          bytes_total |-> 204, num_10m |-> 205, num_double_spends |-> 206,
          num_failing |-> 207, num_not_relayed |-> 208, oldest |-> 209,
          txs_total |-> 210 ],
      untrusted |-> FALSE ]

\* ClientError, any of its four kinds
ClientErrors == { "HttpClient", "ResponseDeserialization", "NoResult", "UnexpectedStatus" }

Err(kind, e) == [ok |-> FALSE, kind |-> kind, error |-> e]

Ok(v) == [ok |-> TRUE, value |-> v]


(***************************************************************************)
(* Exporter (src/src/metrics.rs).                                          *)
(***************************************************************************)
\* the largest element of a non-empty sequence of numbers
SeqMax(s) == CHOOSE m \in { s[i] : i \in 1..Len(s) } : \A i \in 1..Len(s) : s[i] <= m

\* Exporter::new: the spans (an empty list becomes [1]) and their maximum
Exporter_new(spans) ==
    LET block_spans == IF spans = <<>> THEN <<1>> ELSE spans IN
    [ max_block_span |-> SeqMax(block_spans), block_spans |-> block_spans ]

\* u64::checked_sub(b).unwrap_or(0)
CheckedSubOr0(a, b) == IF a >= b THEN a - b ELSE 0

\* the BlockHeadersRangeRequest export() builds from the node's height
BlockHeadersRangeRequest(self, node) ==
    [ start_height |-> CheckedSubOr0(node.height, self.max_block_span),
      end_height   |-> CheckedSubOr0(node.height, 1) ]

\* "Node metrics": the 9 gauges pushed before the synchronized check
NodeMetrics(node) ==
    << new_gauge("monero_node_database_size", AsF64(node.database_size)),
       new_gauge("monero_node_free_space", AsF64(node.free_space)),
       new_gauge("monero_node_grey_peerlist_size", AsF64(node.grey_peerlist_size)),
       new_gauge("monero_node_incoming_connections_count", AsF64(node.incoming_connections_count)),
       new_gauge("monero_node_offline", BoolAsF64(node.offline)),
       new_gauge("monero_node_outgoing_connections_count", AsF64(node.outgoing_connections_count)),
       new_gauge("monero_node_rpc_connections_count", AsF64(node.rpc_connections_count)),
       new_gauge("monero_node_synchronized", BoolAsF64(node.synchronized)),
       new_gauge("monero_node_white_peerlist_size", AsF64(node.white_peerlist_size)) >>

\* "Node metrics - transaction pool": 10 gauges
TxPoolMetrics(pool_stats) ==
    << new_gauge("monero_txpool_bytes_max", AsF64(pool_stats.bytes_max)),
       new_gauge("monero_txpool_bytes_med", AsF64(pool_stats.bytes_med)),
       new_gauge("monero_txpool_bytes_min", AsF64(pool_stats.bytes_min)),
       new_gauge("monero_txpool_bytes_total", AsF64(pool_stats.bytes_total)),
       new_gauge("monero_txpool_double_spends", AsF64(pool_stats.num_double_spends)),
       new_gauge("monero_txpool_txs_failing", AsF64(pool_stats.num_failing)),
       new_gauge("monero_txpool_txs_not_relayed", AsF64(pool_stats.num_not_relayed)),
       new_gauge("monero_txpool_oldest_tx", AsF64(pool_stats.oldest)),
       new_gauge("monero_txpool_txs_above_10min", AsF64(pool_stats.num_10m)),
       new_gauge("monero_txpool_txs_total", AsF64(pool_stats.txs_total)) >>

\* "Network metrics": 10 gauges
NetworkMetrics(node) ==
    << new_gauge("monero_network_block_size_limit", AsF64(node.block_size_limit)),
       new_gauge("monero_network_block_size_median", AsF64(node.block_size_median)),
       new_gauge("monero_network_block_weight_limit", AsF64(node.block_weight_limit)),
       new_gauge("monero_network_block_weight_median", AsF64(node.block_weight_median)),
       new_gauge("monero_network_cumulative_difficulty", AsF64(node.cumulative_difficulty)),
       new_gauge("monero_network_difficulty", AsF64(node.difficulty)),
       new_gauge("monero_network_height", AsF64(node.height)),
       new_gauge("monero_network_target", AsF64(node.target)),
       new_gauge("monero_network_target_height", AsF64(node.target_height)),
       new_gauge("monero_network_tx_count", AsF64(node.tx_count)) >>

\* blocks_metrics: per configured span, in configured order, (count.to_string(), BlocksMetrics)
SpanBlocksMetrics(self, block_headers) ==
    [ i \in 1..Len(self.block_spans) |->
        << ToString(self.block_spans[i]),
           get_blocks_metrics(block_headers, self.block_spans[i]) >> ]

\* push_blocks_metric: one family, the selected field of every span
push_blocks_metric(name, field, blocks_metrics) ==
    new_gauge_with_label_values(name, "block_count",
        [ i \in 1..Len(blocks_metrics) |-> << blocks_metrics[i][1], blocks_metrics[i][2][field] >> ])

\* "Network metrics - blocks": 6 families
BlocksMetricsFamilies(self, block_headers) ==
    LET blocks_metrics == SpanBlocksMetrics(self, block_headers) IN
    << push_blocks_metric("monero_blocks_avg_txes", "avg_txes", blocks_metrics),
       push_blocks_metric("monero_blocks_max_txes", "max_txes", blocks_metrics),
       push_blocks_metric("monero_blocks_avg_reward", "avg_reward", blocks_metrics),
       push_blocks_metric("monero_blocks_max_reward", "max_reward", blocks_metrics),
       push_blocks_metric("monero_blocks_avg_size", "avg_size", blocks_metrics),
       push_blocks_metric("monero_blocks_max_size", "max_size", blocks_metrics) >>

\* the metric list with each fetch's metrics pushed when that fetch completes
SynchronizedMetrics_CompletionOrder(self, node, pool_stats, block_headers) ==
    IF join_order = <<"get_block_headers_range">>
    THEN NodeMetrics(node) \o NetworkMetrics(node)
            \o BlocksMetricsFamilies(self, block_headers) \o TxPoolMetrics(pool_stats)
    ELSE NodeMetrics(node) \o TxPoolMetrics(pool_stats) \o NetworkMetrics(node)
            \o BlocksMetricsFamilies(self, block_headers)

\* the metric list of a synchronized, trusted node, in push order
SynchronizedMetrics(self, node, pool_stats, block_headers) ==
    NodeMetrics(node) \o TxPoolMetrics(pool_stats) \o NetworkMetrics(node)
        \o BlocksMetricsFamilies(self, block_headers)

\* InfoGate with the synchronized check made before the untrusted one
InfoGate_SynchronizedFirst(node) ==
    IF ~node.synchronized THEN "NodeOnly"
    ELSE IF node.untrusted THEN "Untrusted"
    ELSE "Join"

\* what export() does with the InfoResponse `node`: fail on an untrusted node, return
\* the node metrics of an unsynchronized one, fetch the rest otherwise
InfoGate(node) ==
    IF node.untrusted THEN "Untrusted"
    ELSE IF ~node.synchronized THEN "NodeOnly"
    ELSE "Join"

\* ExportUnsynchronized rendering the network gauges too
ExportUnsynchronized_WithNetwork(node) ==
    Ok(render_metrics(NodeMetrics(node) \o NetworkMetrics(node)))

\* the tail of export() once get_info has answered and the node is not
\* synchronized: the node metrics rendered
ExportUnsynchronized(node) == Ok(render_metrics(NodeMetrics(node)))

\* the tail of export() once try_join! has yielded both responses
ExportSynchronized(self, node, tx_pool_stats, block_headers) ==
    Ok(render_metrics(
         SynchronizedMetrics(self, node, tx_pool_stats.pool_stats, block_headers.headers)))


(***************************************************************************)
(* The daemon as the exporter sees it.                                     *)
(***************************************************************************)
RECURSIVE Reverse(_)
Reverse(s) == IF s = <<>> THEN <<>> ELSE Reverse(Tail(s)) \o <<Head(s)>>

\* the headers of the heights start..end, oldest first, orphan[h] telling
\* which of them the daemon flags as orphans
RangeHeaders(req, orphan) ==
    [ i \in 1..(req.end_height - req.start_height + 1) |->
        BlockHeader(req.start_height + i - 1, orphan[req.start_height + i - 1]) ]

\* Client::get_block_headers_range: what a successful call may deserialize to.
\* The client keeps the order of the daemon's array, and nothing in it fixes
\* that order: oldest first and newest first are both admitted, as is an
\* empty array.
BlockHeadersRangeResponses(req) ==
    { [headers |-> w, untrusted |-> FALSE] :
        w \in {<<>>}
            \cup { RangeHeaders(req, o) :
                     o \in [req.start_height..req.end_height -> BOOLEAN] }
            \cup { Reverse(RangeHeaders(req, o)) :
                     o \in [req.start_height..req.end_height -> BOOLEAN] } }

\* the span lists a configuration may hold (Config.block_spans)
\* (any comma-separated list of u32: an empty one, one of a zero span)
ConfiguredBlockSpans == { <<>>, <<2, 1>>, <<0>> }

\* the paths HTTP requests ask for
Paths == { "/metrics", "/" }

Idle == [st |-> "idle"]

Pending == [st |-> "pending"]

Ready(v) == [st |-> "ready", value |-> v]

\* a future in flight that carries the request `req`
Requested(req) == [st |-> "pending", req |-> req]

\* the future of the request `req` completed with `v`
Answered(req, v) == [st |-> "ready", req |-> req, value |-> v]

NoCalls == [ get_info |-> 0, get_transaction_pool_stats |-> 0, get_block_headers_range |-> 0 ]

\* RwLock::new: no writer, no reader
RwLock_new == [writer |-> FALSE, readers |-> 0]

\* write() returns once no guard is out
CanWrite(l) == ~l.writer /\ l.readers = 0

\* read() returns once no write guard is out
CanRead(l) == ~l.writer

\* RwLock::write: the write guard is out
RwLock_write(l) == [l EXCEPT !.writer = TRUE]

\* the write guard goes out of scope
DropWriteGuard(l) == [l EXCEPT !.writer = FALSE]

\* RwLock::read: one more read guard is out
RwLock_read(l) == [l EXCEPT !.readers = @ + 1]

\* a read guard goes out of scope
DropReadGuard(l) == [l EXCEPT !.readers = @ - 1]

\* Publisher::new with the snapshot starting as an empty text
Publisher_new_EmptyText(spans) ==
    [ exporter |-> Exporter_new(spans), rendered_metrics |-> Some(<<>>) ]

\* Publisher::new
Publisher_new(spans) ==
    [ exporter |-> Exporter_new(spans), rendered_metrics |-> None ]

\* Publisher::get_metrics: a clone of the snapshot
get_metrics(snapshot) == snapshot

\* the match of Publisher::run on export()'s result: what is stored
StoredResult(result) == IF result.ok THEN Some(result.value) ELSE None

\* what outcomes records of a result
Kind(result) == IF result.ok THEN "Ok" ELSE result.kind

\* the reply with the status not following the snapshot's presence
Reply_Always200(snapshot) ==
    IF snapshot = <<>>
    THEN [status |-> 200, body |-> <<>>]
    ELSE [status |-> 200, body |-> snapshot[1]]

\* the closure of create_server: the reply to a request
Reply(snapshot) ==
    LET metrics == get_metrics(snapshot) IN
    IF metrics = None
    THEN [status |-> 503, body |-> <<>>]
    ELSE [status |-> 200, body |-> metrics[1]]

\* the state once main() has built the Publisher, before run() and the server start
PublisherInit ==
    /\ \E spans \in ConfiguredBlockSpans :
         LET p == Publisher_new(spans) IN
         /\ exporter = p.exporter
         /\ rendered_metrics = p.rendered_metrics
    /\ pc = "tick"
    /\ info = None
    /\ tx_pool_fut = Idle
    /\ headers_fut = Idle
    /\ calls = NoCalls
    /\ now = 0
    /\ deadline = 0
    /\ http = None
    /\ join_order = <<>>
    /\ outcomes = <<>>
    /\ lock = RwLock_new

Init ==
    /\ PublisherInit
    /\ agg = [headers |-> <<>>, count |-> 0, out |-> None]

\* EndCycle with a failure leaving the previous snapshot in place
EndCycle_KeepStale(result) ==
    /\ rendered_metrics' = (IF result.ok THEN Some(result.value) ELSE rendered_metrics)
    /\ outcomes' = (IF outcomes = <<>> THEN <<>> ELSE <<outcomes[Len(outcomes)]>>)
                       \o <<(IF result.ok THEN "Ok" ELSE result.kind)>>
    /\ pc' = "tick"
    /\ CanWrite(lock)
    /\ lock' = DropWriteGuard(RwLock_write(lock))

\* EndCycle with run() returning at the first failed export()
EndCycle_FatalOnError(result) ==
    /\ rendered_metrics' = StoredResult(result)
    /\ outcomes' = (IF outcomes = <<>> THEN <<>> ELSE <<outcomes[Len(outcomes)]>>)
                       \o <<Kind(result)>>
    /\ pc' = (IF result.ok THEN "tick" ELSE "returned")
    /\ CanWrite(lock)
    /\ lock' = DropWriteGuard(RwLock_write(lock))

\* the end of a cycle of Publisher::run: export() has returned `result`; the
\* write lock is taken, the result stored, the guard dropped at the end of its
\* block, and the loop is back at interval.tick()
EndCycle(result) ==
    /\ rendered_metrics' = StoredResult(result)
    /\ outcomes' = (IF outcomes = <<>> THEN <<>> ELSE <<outcomes[Len(outcomes)]>>)
                       \o <<Kind(result)>>
    /\ pc' = "tick"
    /\ CanWrite(lock)
    /\ lock' = DropWriteGuard(RwLock_write(lock))

\* Tick with the write guard bound before export() is awaited
Tick_LocksBeforeExport ==
    /\ pc = "tick"
    /\ now >= deadline
    /\ deadline' = deadline + RefreshInterval
    /\ pc' = "get_info"
    /\ info' = None
    /\ tx_pool_fut' = Idle
    /\ headers_fut' = Idle
    /\ join_order' = <<>>
    /\ calls' = [NoCalls EXCEPT !.get_info = 1]
    /\ UNCHANGED << exporter, rendered_metrics, now, http, outcomes, agg >>
    /\ CanWrite(lock)
    /\ lock' = RwLock_write(lock)

\* interval.tick() completes (the first tick at once, every later one when its
\* deadline has come; the next deadline is one period after this one's), and
\* export() starts: get_info is sent
Tick ==
    /\ pc = "tick"
    /\ now >= deadline
    /\ deadline' = deadline + RefreshInterval
    /\ pc' = "get_info"
    /\ info' = None
    /\ tx_pool_fut' = Idle
    /\ headers_fut' = Idle
    /\ join_order' = <<>>
    /\ calls' = [NoCalls EXCEPT !.get_info = 1]
    /\ UNCHANGED << exporter, rendered_metrics, now, http, outcomes, lock, agg >>

\* get_info fails: export() returns ExportError::Client
GetInfoFails ==
    /\ pc = "get_info"
    /\ \E e \in ClientErrors : EndCycle(Err("Client", e))
    /\ UNCHANGED << exporter, info, tx_pool_fut, headers_fut, calls, now, deadline, http,
                    join_order, agg >>

\* get_info answers: export() runs up to its return or to try_join!
GetInfoReturns ==
    /\ pc = "get_info"
    /\ \E r \in InfoResponses :
         /\ info' = Some(r)
         /\ IF InfoGate(r) = "Untrusted"
            THEN /\ EndCycle(Err("Untrusted", "Untrusted"))
                 /\ UNCHANGED << tx_pool_fut, headers_fut, calls >>
            ELSE IF InfoGate(r) = "NodeOnly"
            THEN /\ EndCycle(ExportUnsynchronized(r))
                 /\ UNCHANGED << tx_pool_fut, headers_fut, calls >>
            ELSE /\ pc' = "try_join"
                 /\ tx_pool_fut' = Pending
                 /\ headers_fut' = Requested(BlockHeadersRangeRequest(exporter, r))
                 /\ calls' = [calls EXCEPT
                                !.get_transaction_pool_stats = @ + 1,
                                !.get_block_headers_range = @ + 1]
                 /\ UNCHANGED << rendered_metrics, outcomes, lock >>
    /\ UNCHANGED << exporter, now, deadline, http, join_order, agg >>

\* try_join! with a failed fetch answered by the node metrics already built
TryJoin_NodeMetricsOnFailure(r, other, tx_pool_stats, block_headers) ==
    IF ~r.ok
    THEN EndCycle(ExportUnsynchronized(info[1]))
    ELSE IF other.st = "ready"
    THEN EndCycle(ExportSynchronized(exporter, info[1], tx_pool_stats, block_headers))
    ELSE UNCHANGED << rendered_metrics, outcomes, pc, lock >>

\* try_join! once one of its futures has answered with `r`, the other being `other`
TryJoin(r, other, tx_pool_stats, block_headers) ==
    IF ~r.ok
    THEN EndCycle(Err("Client", r.error))
    ELSE IF other.st = "ready"
    THEN EndCycle(ExportSynchronized(exporter, info[1], tx_pool_stats, block_headers))
    ELSE UNCHANGED << rendered_metrics, outcomes, pc, lock >>

\* get_transaction_pool_stats fails
TxPoolStatsFails ==
    /\ pc = "try_join"
    /\ tx_pool_fut = Pending
    /\ \E r \in { Err("Client", e) : e \in ClientErrors } :
         /\ tx_pool_fut' = Ready(r)
         /\ join_order' = Append(join_order, "get_transaction_pool_stats")
         /\ TryJoin(r, headers_fut, r.value, headers_fut.value.value)
    /\ UNCHANGED << exporter, info, headers_fut, calls, now, deadline, http, agg >>

\* get_transaction_pool_stats answers
TxPoolStatsReturns ==
    /\ pc = "try_join"
    /\ tx_pool_fut = Pending
    /\ \E r \in { Ok(TransactionPoolStatsResponse) } :
         /\ tx_pool_fut' = Ready(r)
         /\ join_order' = Append(join_order, "get_transaction_pool_stats")
         /\ TryJoin(r, headers_fut, r.value, headers_fut.value.value)
    /\ UNCHANGED << exporter, info, headers_fut, calls, now, deadline, http, agg >>

\* get_block_headers_range fails
BlockHeadersRangeFails ==
    /\ pc = "try_join"
    /\ headers_fut.st = "pending"
    /\ \E r \in { Err("Client", e) : e \in ClientErrors } :
         /\ headers_fut' = Answered(headers_fut.req, r)
         /\ join_order' = Append(join_order, "get_block_headers_range")
         /\ TryJoin(r, tx_pool_fut, tx_pool_fut.value.value, r.value)
    /\ UNCHANGED << exporter, info, tx_pool_fut, calls, now, deadline, http, agg >>

\* get_block_headers_range answers
BlockHeadersRangeReturns ==
    /\ pc = "try_join"
    /\ headers_fut.st = "pending"
    /\ \E r \in { Ok(w) : w \in BlockHeadersRangeResponses(headers_fut.req) } :
         /\ headers_fut' = Answered(headers_fut.req, r)
         /\ join_order' = Append(join_order, "get_block_headers_range")
         /\ TryJoin(r, tx_pool_fut, tx_pool_fut.value.value, r.value)
    /\ UNCHANGED << exporter, info, tx_pool_fut, calls, now, deadline, http, agg >>

\* time passes; a tick that is due while run() waits in interval.tick() is
\* delivered before the clock moves on
Advance ==
    /\ now < MaxTime
    /\ ~(pc = "tick" /\ now >= deadline)
    /\ now' = now + 1
    /\ UNCHANGED << exporter, rendered_metrics, pc, info, tx_pool_fut, headers_fut, calls,
                    deadline, http, join_order, outcomes, lock, agg >>

\* the HTTP server answers a request: the warp::any() filter of create_server,
\* which looks at neither the path nor the method; get_metrics() takes the read
\* lock, clones the snapshot and drops the guard
HttpRequest ==
    /\ CanRead(lock)
    /\ \E path \in Paths :
         http' = Some(Reply(rendered_metrics))
    /\ lock' = DropReadGuard(RwLock_read(lock))
    /\ UNCHANGED << exporter, rendered_metrics, pc, info, tx_pool_fut, headers_fut, calls,
                    now, deadline, join_order, outcomes, agg >>

Next ==
    \/ Tick
    \/ GetInfoFails
    \/ GetInfoReturns
    \/ TxPoolStatsFails
    \/ TxPoolStatsReturns
    \/ BlockHeadersRangeFails
    \/ BlockHeadersRangeReturns
    \/ Advance
    \/ HttpRequest

Spec == Init /\ [][Next]_vars

\* the timer fires when it is due, time passes, and every gateway call that is
\* in flight eventually answers or fails
Fairness ==
    /\ WF_vars(Tick)
    /\ WF_vars(Advance)
    /\ WF_vars(GetInfoFails \/ GetInfoReturns)
    /\ WF_vars(TxPoolStatsFails \/ TxPoolStatsReturns)
    /\ WF_vars(BlockHeadersRangeFails \/ BlockHeadersRangeReturns)

SpecLive == Spec /\ Fairness


(***************************************************************************)
(* get_blocks_metrics on its own: every window of at most MaxLen headers   *)
(* of the blocks 0..MaxBlock, every count up to MaxLen + 1.                *)
(***************************************************************************)
AggHeaders == { BlockHeader(h, o) : h \in 0..MaxBlock, o \in BOOLEAN }

AggWindows == UNION { [1..n -> AggHeaders] : n \in 0..MaxLen }

InitAgg ==
    /\ PublisherInit
    /\ \E w \in AggWindows, count \in 0..(MaxLen + 1) :
         agg = [headers |-> w, count |-> count, out |-> None]

\* get_blocks_metrics(headers, count) is called
AggApply ==
    /\ agg.out = None
    /\ agg' = [agg EXCEPT !.out = Some(get_blocks_metrics(agg.headers, agg.count))]
    /\ UNCHANGED << exporter, rendered_metrics, pc, info, tx_pool_fut, headers_fut, calls,
                    now, deadline, http, join_order, outcomes, lock >>

NextAgg == AggApply

SpecAgg == InitAgg /\ [][NextAgg]_vars


(***************************************************************************)
(* Properties.                                                             *)
(***************************************************************************)
\* what export() returned in the last completed cycle ("none" before it)
LastOutcome == IF outcomes = <<>> THEN "none" ELSE outcomes[Len(outcomes)]

ExportErrorKinds == { "Client", "Untrusted", "Renderer" }

\* C1: whenever the last completed cycle's export() failed, with whatever
\* ExportError, the snapshot is absent and get_metrics() returns absent, also
\* when the cycle before it had published a text.
C1_FailedCycleClearsSnapshot ==
    LastOutcome \in ExportErrorKinds =>
        /\ rendered_metrics = None
        /\ get_metrics(rendered_metrics) = None

\* a successful cycle followed by a failed one, the snapshot absent
C1_Witness ==
    /\ Len(outcomes) = 2
    /\ outcomes[1] = "Ok"
    /\ outcomes[2] \in ExportErrorKinds
    /\ rendered_metrics = None

\* C2: until the first cycle has completed, the first export() in flight
\* included, the snapshot is absent, get_metrics() returns absent and every
\* reply given so far is the 503 of an absent snapshot.
C2_AbsentBeforeFirstCycle ==
    outcomes = <<>> =>
        /\ rendered_metrics = None
        /\ get_metrics(rendered_metrics) = None
        /\ http # None => http[1] = [status |-> 503, body |-> <<>>]

\* the first export() is waiting in try_join! and a request has been answered
C2_Witness ==
    /\ outcomes = <<>>
    /\ pc = "try_join"
    /\ http # None
    /\ http[1].status = 503

\* C3: a request is answered 200 with the snapshot's text when the snapshot is
\* present and 503 with an empty body when it is absent, and answering it
\* changes neither the snapshot nor anything of the refresh loop: no gateway
\* call is issued, no cycle starts.
C3_RequestOnlyReadsSnapshot ==
    [][ HttpRequest =>
          /\ rendered_metrics # None =>
                http' = Some([status |-> 200, body |-> rendered_metrics[1]])
          /\ rendered_metrics = None =>
                http' = Some([status |-> 503, body |-> <<>>])
          /\ UNCHANGED << rendered_metrics, pc, info, tx_pool_fut, headers_fut, calls,
                          deadline, join_order, outcomes >> ]_vars

\* a request answered 200 with the published text while the next cycle's
\* get_info is in flight
C3_Witness ==
    /\ http # None
    /\ http[1].status = 200
    /\ rendered_metrics # None
    /\ http[1].body = rendered_metrics[1]
    /\ pc = "get_info"


(***************************************************************************)
(* Reading a rendered text back.                                           *)
(***************************************************************************)
IsHelpLine(line) == line[1] = "# HELP "

IsSampleLine(line) == line[1] \notin {"# HELP ", "# TYPE "}

\* the metric families of a text: the names of its HELP lines, in order
HelpNames(text) ==
    LET help == SelectSeq(text, IsHelpLine) IN [ i \in 1..Len(help) |-> help[i][2] ]

\* the sample lines of a text, in order
SampleLines(text) == SelectSeq(text, IsSampleLine)

\* the names of the sample lines of a text, in order
SampleNames(text) ==
    LET samples == SampleLines(text) IN [ i \in 1..Len(samples) |-> samples[i][1] ]

NodeGaugeNames ==
    << "monero_node_database_size", "monero_node_free_space",
       "monero_node_grey_peerlist_size", "monero_node_incoming_connections_count",
       "monero_node_offline", "monero_node_outgoing_connections_count",
       "monero_node_rpc_connections_count", "monero_node_synchronized",
       "monero_node_white_peerlist_size" >>

\* the cycle that received the InfoResponse now in `info` has completed
CycleDoneWithInfo == pc = "tick" /\ info # None

\* C4: once get_info has answered untrusted = true, whatever synchronized
\* says, the cycle is over with ExportError::Untrusted, neither
\* get_transaction_pool_stats nor get_block_headers_range was issued in it,
\* and the snapshot is absent.
C4_UntrustedFailsCycle ==
    (info # None /\ info[1].untrusted) =>
        /\ pc = "tick"
        /\ LastOutcome = "Untrusted"
        /\ calls.get_transaction_pool_stats = 0
        /\ calls.get_block_headers_range = 0
        /\ calls.get_info = 1
        /\ rendered_metrics = None
        /\ get_metrics(rendered_metrics) = None

\* an untrusted but synchronized node answered in the cycle after a successful one
C4_Witness ==
    /\ CycleDoneWithInfo
    /\ info[1].untrusted
    /\ info[1].synchronized
    /\ outcomes = <<"Ok", "Untrusted">>
    /\ rendered_metrics = None

\* C5: once get_info has answered untrusted = false and synchronized = false,
\* the cycle is over with a successful export(), neither
\* get_transaction_pool_stats nor get_block_headers_range was issued in it, and
\* the published snapshot is present and holds exactly the 9 node gauges, one
\* sample each, and no other family.
C5_UnsynchronizedNodeOnly ==
    (info # None /\ ~info[1].untrusted /\ ~info[1].synchronized) =>
        /\ pc = "tick"
        /\ LastOutcome = "Ok"
        /\ calls.get_transaction_pool_stats = 0
        /\ calls.get_block_headers_range = 0
        /\ rendered_metrics # None
        /\ HelpNames(rendered_metrics[1]) = NodeGaugeNames
        /\ SampleNames(rendered_metrics[1]) = NodeGaugeNames
        /\ Len(rendered_metrics[1]) = 27

\* an unsynchronized, trusted node answered and its cycle published a text
C5_Witness ==
    /\ CycleDoneWithInfo
    /\ ~info[1].untrusted
    /\ ~info[1].synchronized
    /\ LastOutcome = "Ok"
    /\ rendered_metrics # None
    /\ Len(rendered_metrics[1]) = 27


TxPoolGaugeNames ==
    << "monero_txpool_bytes_max", "monero_txpool_bytes_med", "monero_txpool_bytes_min",
       "monero_txpool_bytes_total", "monero_txpool_double_spends",
       "monero_txpool_txs_failing", "monero_txpool_txs_not_relayed",
       "monero_txpool_oldest_tx", "monero_txpool_txs_above_10min",
       "monero_txpool_txs_total" >>

NetworkGaugeNames ==
    << "monero_network_block_size_limit", "monero_network_block_size_median",
       "monero_network_block_weight_limit", "monero_network_block_weight_median",
       "monero_network_cumulative_difficulty", "monero_network_difficulty",
       "monero_network_height", "monero_network_target",
       "monero_network_target_height", "monero_network_tx_count" >>

BlockFamilyNames ==
    << "monero_blocks_avg_txes", "monero_blocks_max_txes", "monero_blocks_avg_reward",
       "monero_blocks_max_reward", "monero_blocks_avg_size", "monero_blocks_max_size" >>

\* a cycle of a trusted, synchronized node has completed with a text
SynchronizedCycleDone ==
    /\ CycleDoneWithInfo
    /\ ~info[1].untrusted
    /\ info[1].synchronized
    /\ LastOutcome = "Ok"

\* the decimal digits of a span
SpanLabel(span) ==
    CASE span = 0 -> "0" [] span = 1 -> "1" [] span = 2 -> "2" [] span = 3 -> "3"
      [] span = 4 -> "4" [] span = 5 -> "5" [] OTHER -> "?"

\* C6: the text a synchronized, trusted node's cycle publishes lists the 9
\* node gauges, the 10 tx-pool gauges, the 10 network gauges and the 6 block
\* families in that order; the 29 gauges have one unlabelled sample each, and
\* each block family has one sample per configured span, in the configured
\* order, labelled block_count = the span in decimal.  This holds whichever of
\* the two fetches answered first.
C6_MetricOrder ==
    SynchronizedCycleDone =>
        LET text    == rendered_metrics[1]
            samples == SampleLines(text)
            spans   == exporter.block_spans
            n       == Len(spans)
        IN  /\ rendered_metrics # None
            /\ HelpNames(text) =
                 NodeGaugeNames \o TxPoolGaugeNames \o NetworkGaugeNames \o BlockFamilyNames
            /\ Len(samples) = 29 + 6 * n
            /\ \A i \in 1..29 :
                 /\ Len(samples[i]) = 4
                 /\ samples[i][1] = (NodeGaugeNames \o TxPoolGaugeNames \o NetworkGaugeNames)[i]
            /\ \A k \in 1..6 : \A i \in 1..n :
                 LET line == samples[29 + (k - 1) * n + i] IN
                 /\ Len(line) = 9
                 /\ line[1] = BlockFamilyNames[k]
                 /\ line[3] = "block_count"
                 /\ line[5] = SpanLabel(spans[i])

\* a cycle with two configured spans whose header range answered before the
\* pool statistics
C6_Witness ==
    /\ SynchronizedCycleDone
    /\ exporter.block_spans = <<2, 1>>
    /\ join_order = <<"get_block_headers_range", "get_transaction_pool_stats">>
    /\ Len(headers_fut.value.value.headers) = 2


(***************************************************************************)
(* The aggregation stated over index sets.                                 *)
(***************************************************************************)
Min(a, b) == IF a < b THEN a ELSE b

\* the positions of w the aggregation for `count` is about: the non-orphans
\* among the first min(count, Len(w))
Remaining(w, count) == { i \in 1..Min(count, Len(w)) : ~w[i].orphan_status }

RECURSIVE SumAt(_, _, _)
SumAt(w, field, idx) ==
    IF idx = {} THEN 0
    ELSE LET i == CHOOSE i \in idx : TRUE IN w[i][field] + SumAt(w, field, idx \ {i})

MaxAt(w, field, idx) ==
    CHOOSE m \in { w[i][field] : i \in idx } : \A i \in idx : w[i][field] <= m

\* x is the quotient sum / len
IsQuotient(x, sum, len) == x.d > 0 /\ x.n * len = sum * x.d

\* m holds, for `field`, the mean and the largest value of w at the positions idx
IsMeanAndMax(avg, max, w, field, idx) ==
    /\ IsQuotient(avg, SumAt(w, field, idx), Cardinality(idx))
    /\ max = [n |-> MaxAt(w, field, idx), d |-> 1]

\* C7: get_blocks_metrics(W, count) looks at the first min(count, len(W))
\* entries of W only, drops the orphans among them and, when an entry remains,
\* returns per field sum / number of remaining entries as the average and the
\* largest remaining value as the maximum; a count above len(W) is clamped.
C7_WindowStats ==
    agg.out # None =>
        LET w   == agg.headers
            idx == Remaining(w, agg.count)
            m   == agg.out[1]
        IN  idx # {} =>
              /\ IsMeanAndMax(m.avg_txes, m.max_txes, w, "num_txes", idx)
              /\ IsMeanAndMax(m.avg_reward, m.max_reward, w, "reward", idx)
              /\ IsMeanAndMax(m.avg_size, m.max_size, w, "block_size", idx)

\* a count above the window's length, an orphan dropped, a non-integral mean
C7_Witness ==
    /\ agg.out # None
    /\ agg.count > Len(agg.headers)
    /\ Len(agg.headers) >= 2
    /\ \E i \in 1..Len(agg.headers) : agg.headers[i].orphan_status
    /\ Cardinality(Remaining(agg.headers, agg.count)) >= 2
    /\ agg.out[1].avg_txes.d > 1

\* the f64 of an unsigned integer: not NaN, not negative, not infinite
IsUnsignedNumber(x) == ~IsNaN(x) /\ x.d = 1 /\ x.n >= 0

\* C15: the maxima of get_blocks_metrics start from 0: when no header remains
\* after take and filter, max_txes, max_reward and max_size are the number 0
\* and the three averages are NaN; when headers remain, each maximum is a
\* non-negative number, a value of its field in the remaining set that no
\* value of the set exceeds.
C15_MaximaFoldedFromZero ==
    agg.out # None =>
        LET w   == agg.headers
            idx == Remaining(w, agg.count)
            m   == agg.out[1]
            IsLargest(max, field) ==
                /\ IsUnsignedNumber(max)
                /\ \E i \in idx : max = AsF64(w[i][field])
                /\ \A i \in idx : w[i][field] <= max.n
        IN  /\ idx = {} =>
                /\ m.max_txes = AsF64(0) /\ m.max_reward = AsF64(0) /\ m.max_size = AsF64(0)
                /\ IsUnsignedNumber(m.max_txes)
                /\ IsNaN(m.avg_txes) /\ IsNaN(m.avg_reward) /\ IsNaN(m.avg_size)
            /\ idx # {} =>
                /\ IsLargest(m.max_txes, "num_txes")
                /\ IsLargest(m.max_reward, "reward")
                /\ IsLargest(m.max_size, "block_size")

\* a window of two headers, both taken and both orphans: nothing remains
C15_Witness ==
    /\ agg.out # None
    /\ Len(agg.headers) >= 2
    /\ agg.count >= 2
    /\ Remaining(agg.headers, agg.count) = {}
    /\ agg.out[1].max_reward = AsF64(0)
    /\ IsNaN(agg.out[1].avg_reward)

(***************************************************************************)
(* The header window of a completed cycle.                                 *)
(***************************************************************************)
\* the window the last completed synchronized cycle fetched
FetchedWindow == headers_fut.value.value.headers

\* w with its headers ordered by height, the most recent first
RECURSIVE NewestFirst(_)
NewestFirst(w) ==
    IF w = <<>> THEN <<>>
    ELSE LET i == CHOOSE i \in 1..Len(w) : \A j \in 1..Len(w) : w[j].height <= w[i].height
         IN  <<w[i]>> \o NewestFirst(SubSeq(w, 1, i - 1) \o SubSeq(w, i + 1, Len(w)))

\* C8 (as claimed): the text a synchronized cycle publishes is the one whose
\* per-span statistics are computed over the most recent min(S, len(W))
\* headers of the fetched window W, those of the greatest heights.
C8_MostRecentHeaders ==
    SynchronizedCycleDone =>
        rendered_metrics =
            Some(render_metrics(
                NodeMetrics(info[1])
                    \o TxPoolMetrics(tx_pool_fut.value.value.pool_stats)
                    \o NetworkMetrics(info[1])
                    \o BlocksMetricsFamilies(exporter, NewestFirst(FetchedWindow))))

\* the value written on the sample line of block family k for the i-th span
BlockSample(text, k, i) ==
    SampleLines(text)[29 + (k - 1) * Len(exporter.block_spans) + i][8]

\* the spans (by position) whose filtered set is empty for the window w
EmptySpans(w) ==
    { i \in 1..Len(exporter.block_spans) : Remaining(w, exporter.block_spans[i]) = {} }

\* C9: when the filtered set of a span is empty, because the window is empty
\* or the headers taken for the span are all orphans, the cycle still succeeds
\* and publishes a text, in which the three averages of that span are NaN.
C9_EmptySetRendersNaN ==
    (pc = "tick" /\ info # None /\ ~info[1].untrusted /\ info[1].synchronized
        /\ headers_fut.st = "ready" /\ headers_fut.value.ok
        /\ tx_pool_fut.st = "ready" /\ tx_pool_fut.value.ok) =>
        /\ LastOutcome = "Ok"
        /\ rendered_metrics # None
        /\ \A i \in EmptySpans(FetchedWindow) : \A k \in {1, 3, 5} :
             BlockSample(rendered_metrics[1], k, i) = "NaN"

\* a two-header window of orphans only was fetched and its cycle published
C9_Witness ==
    /\ SynchronizedCycleDone
    /\ Len(FetchedWindow) = 2
    /\ \A i \in 1..2 : FetchedWindow[i].orphan_status
    /\ EmptySpans(FetchedWindow) = 1..Len(exporter.block_spans)
    /\ rendered_metrics # None
    /\ BlockSample(rendered_metrics[1], 1, 1) = "NaN"

\* C10 (as claimed): ticks do not queue: once a tick has been delivered and a
\* cycle started, no further tick is already due, however long the previous
\* cycle lasted.
C10_TicksDoNotQueue == [][ Tick => deadline' > now ]_vars


(***************************************************************************)
(* The requested header range.                                             *)
(***************************************************************************)
Max(a, b) == IF a > b THEN a ELSE b

\* C11 (as claimed): for every height h and every configured span list of
\* maximum span m, the range requested is start_height = max(h - m, 0),
\* end_height = max(h - 1, 0): start_height = 0 whenever h < m, end_height = 0
\* when h = 0, start_height <= end_height always, and the range holds at most
\* m heights, exactly m when h >= m; an empty span list behaves as <<1>>.
C11_HeaderRange ==
    /\ Exporter_new(<<>>) = Exporter_new(<<1>>)
    /\ headers_fut.st \in {"pending", "ready"} =>
         LET h   == info[1].height
             m   == exporter.max_block_span
             req == headers_fut.req
         IN  /\ req.start_height = Max(h - m, 0)
             /\ req.end_height = Max(h - 1, 0)
             /\ h < m => req.start_height = 0
             /\ h = 0 => req.end_height = 0
             /\ req.start_height <= req.end_height
             /\ req.end_height - req.start_height + 1 <= m
             /\ h >= m => req.end_height - req.start_height + 1 = m


(***************************************************************************)
(* Failures of gateway calls.                                              *)
(***************************************************************************)
\* the future has completed with an error
Failed(fut) == fut.st = "ready" /\ ~fut.value.ok

\* the future has completed with a response
Succeeded(fut) == fut.st = "ready" /\ fut.value.ok

\* C12: in a cycle every gateway call is issued at most once; when get_info
\* has failed the cycle has ended with ExportError::Client without the two
\* other calls; when get_transaction_pool_stats or get_block_headers_range has
\* failed the cycle has ended with ExportError::Client whatever the other call
\* did; in both cases nothing is published: the snapshot is absent.
C12_OneFailureFailsCycle ==
    /\ \A c \in DOMAIN calls : calls[c] <= 1
    /\ (pc = "tick" /\ outcomes # <<>> /\ info = None) =>
         /\ LastOutcome = "Client"
         /\ calls.get_info = 1
         /\ calls.get_transaction_pool_stats = 0
         /\ calls.get_block_headers_range = 0
         /\ rendered_metrics = None
    /\ (Failed(tx_pool_fut) \/ Failed(headers_fut)) =>
         /\ pc = "tick"
         /\ LastOutcome = "Client"
         /\ calls.get_transaction_pool_stats = 1
         /\ calls.get_block_headers_range = 1
         /\ rendered_metrics = None

\* after a published cycle, the pool statistics answered and then the header
\* range failed
C12_Witness ==
    /\ outcomes = <<"Ok", "Client">>
    /\ Succeeded(tx_pool_fut)
    /\ Failed(headers_fut)
    /\ rendered_metrics = None

(***************************************************************************)
(* The snapshot lock.                                                      *)
(***************************************************************************)
\* a gateway call of export() is in flight, or about to be issued
Exporting == pc \in {"get_info", "try_join"}

\* C13: no guard of the snapshot lock is ever out between two steps, so none
\* is out while a gateway call is in flight; while export() runs a request
\* can be answered, and the snapshot it reads is the outcome of the previous
\* completed cycle (present exactly when that cycle succeeded); the snapshot
\* is assigned only in the step that ends a cycle, and that step leaves it
\* equal to the outcome of the cycle it ends.
C13_LockNotHeldAcrossExport ==
    /\ [](/\ lock = RwLock_new
          /\ Exporting =>
               /\ ENABLED HttpRequest
               /\ (get_metrics(rendered_metrics) # None) <=> (LastOutcome = "Ok"))
    /\ [][ /\ (rendered_metrics' # rendered_metrics) => (Exporting /\ pc' = "tick")
           /\ (Exporting /\ pc' = "tick") =>
                /\ Len(outcomes') = Min(Len(outcomes) + 1, 2)
                /\ (rendered_metrics' # None) <=> (outcomes'[Len(outcomes')] = "Ok")
           /\ (http' # http) => (http' = Some(Reply(rendered_metrics))
                                   /\ rendered_metrics' = rendered_metrics) ]_vars

\* after a published cycle, one of the two joined calls of the next cycle has
\* answered, the other is in flight, and a request got the published text
C13_Witness ==
    /\ pc = "try_join"
    /\ outcomes = <<"Ok">>
    /\ tx_pool_fut.st = "ready"
    /\ headers_fut.st = "pending"
    /\ lock = RwLock_new
    /\ http # None
    /\ http[1].status = 200
    /\ Some(http[1].body) = rendered_metrics

(***************************************************************************)
(* The refresh loop goes on.                                               *)
(***************************************************************************)
\* the text export() returned in the cycle that has just ended with Ok
CycleText ==
    IF InfoGate(info[1]) = "NodeOnly"
    THEN ExportUnsynchronized(info[1]).value
    ELSE ExportSynchronized(exporter, info[1],
                            tx_pool_fut.value.value, headers_fut.value.value).value

\* C14: run() is always either waiting for a tick or inside export(), whatever
\* the earlier cycles returned; once a cycle's export() has succeeded, also
\* after failed cycles, the snapshot is present with that cycle's text; under
\* fairness every started cycle completes, and while a tick is still due
\* within the clock's range (deadline <= MaxTime) the loop starts another
\* cycle, in particular after a failed one.
C14_FailedCycleNotFatal ==
    /\ [](/\ pc \in {"tick", "get_info", "try_join"}
          /\ (pc = "tick" /\ LastOutcome = "Ok") => rendered_metrics = Some(CycleText))
    /\ Exporting ~> (pc = "tick")
    /\ (pc = "tick" /\ deadline <= MaxTime) ~> (pc = "get_info")

\* a failed cycle followed by a cycle that published its text
C14_Witness ==
    /\ pc = "tick"
    /\ outcomes = <<"Client", "Ok">>
    /\ rendered_metrics = Some(CycleText)

=============================================================================
